---- MODULE Spec2Model ----
(***************************************************************************)
(* Model of refactor-bot's plan-execute-validate loop (planAndRefactor)    *)
(* and of the result merger (mutateToMergeRefactorFilesResults).           *)
(*                                                                         *)
(* Spec      : the control loop of planAndRefactor.ts, one action per      *)
(*             statement between two suspension points.                    *)
(* SpecMerge : the merge functions of types.ts applied to operands built   *)
(*             with pushRefactorFileResults.                               *)
(***************************************************************************)
EXTENDS Integers, Sequences, FiniteSets, TLC

(* ------------------------------ bounds -------------------------------- *)

\* Largest number of files one plan holds.
MaxPlanLen == 2

\* Largest number of batches the Plan Producer is allowed to ask for.
MaxBatches == 2

\* Largest number of results pushed into the operands of a merge, in total.
MaxEntries == 3

\* Largest number of calls of the memoized step.
MaxCalls == 3

\* Largest attempt budget a step is configured with.
MaxAttempts == 3

\* Largest number of steps of one result.
MaxSteps == 3

(* --------------------------- value domains ---------------------------- *)

Paths == {"a", "b"}

RawResponses == {"r1", "r2"}

CycleDetectedError == "CycleDetectedError"

OtherError == "Error"

Errors == {CycleDetectedError, OtherError}

NoError == "none"

Statuses == {"success", "failure"}

\* The results the merge operands are built from (refactorResultSchema).
RefactorResults == [filePath : Paths, status : Statuses, lastCommit : {1, 2}]

\* Sequences over S of length 0..n.
SeqsUpTo(S, n) == UNION { [1..k -> S] : k \in 0..n }

\* What the Plan Producer may return as plannedFiles: an ordered list of
\* distinct paths.
Plans == { s \in SeqsUpTo(Paths, MaxPlanLen) :
             \A i, j \in 1..Len(s) : i # j => s[i] # s[j] }

(* ----------------------- records keyed by path ------------------------ *)

\* {} : a record without keys.
EmptyRecord == [p \in {} |-> <<>>]

\* { accepted: {}, discarded: {} }
EmptyFilesResult == [accepted |-> EmptyRecord, discarded |-> EmptyRecord]

\* rec[file] ?? []
Entries(rec, file) == IF file \in DOMAIN rec THEN rec[file] ELSE <<>>

\* Object.entries(rec): the keys of rec in a fixed order.
RECURSIVE ObjectKeys(_)
ObjectKeys(keys) ==
    IF keys = {} THEN <<>>
    ELSE LET k == CHOOSE x \in keys : TRUE
         IN  <<k>> \o ObjectKeys(keys \ {k})

\* pushRefactorFileResults: append to the path's array, or create it.
pushRefactorFileResults(r, into) ==
    IF r.filePath \in DOMAIN into
    THEN [into EXCEPT ![r.filePath] = Append(@, r)]
    ELSE into @@ (r.filePath :> <<r>>)

\* Mutant of MergeEntry: the else-branch (a path new to `into`) is lost.
MergeEntryNoElse(file, tasks, into) ==
    IF file \in DOMAIN into
    THEN [into EXCEPT ![file] = @ \o tasks]
    ELSE into

\* Mutant of MergeEntry: the existing history is overwritten, not extended.
MergeEntryOverwrite(file, tasks, into) ==
    IF file \in DOMAIN into
    THEN [into EXCEPT ![file] = tasks]
    ELSE into @@ (file :> tasks)

\* Mutant of MergeEntry: the new results are put before the existing ones.
MergeEntryPrepend(file, tasks, into) ==
    IF file \in DOMAIN into
    THEN [into EXCEPT ![file] = tasks \o @]
    ELSE into @@ (file :> tasks)

\* The body of the for-loop of mutateToMergeRefactorRecords.
MergeEntry(file, tasks, into) ==
    IF file \in DOMAIN into
    THEN [into EXCEPT ![file] = @ \o tasks]
    ELSE into @@ (file :> tasks)

RECURSIVE MergeEntries(_, _, _)
MergeEntries(keys, from, into) ==
    IF keys = <<>> THEN into
    ELSE MergeEntries(Tail(keys), from,
                      MergeEntry(Head(keys), from[Head(keys)], into))

\* mutateToMergeRefactorRecords({from, into}): the value of `into` afterwards.
mutateToMergeRefactorRecords(from, into) ==
    MergeEntries(ObjectKeys(DOMAIN from), from, into)

\* Mutant: the discarded results are merged into the accepted record too.
MergeFilesCrossed(from, into) ==
    [accepted  |-> mutateToMergeRefactorRecords(from.discarded,
                       mutateToMergeRefactorRecords(from.accepted, into.accepted)),
     discarded |-> into.discarded]

\* mutateToMergeRefactorFilesResults({from, into}): `into` afterwards.
mutateToMergeRefactorFilesResults(from, into) ==
    [accepted  |-> mutateToMergeRefactorRecords(from.accepted, into.accepted),
     discarded |-> mutateToMergeRefactorRecords(from.discarded, into.discarded)]

(* ------------------------------- state -------------------------------- *)

VARIABLES
    pc,                 \* position of planAndRefactor
    planResult,         \* const planResult (line 43)
    repeatedPlanResult, \* const repeatedPlanResult (line 71)
    plannedFiles,       \* the working array, planResult.plannedFiles (line 53)
    planFilesResults,   \* the planning records (line 41)
    files,              \* the run-wide accumulator (line 36)
    result,             \* the result of the batch in progress / last batch
    batchPos,           \* next planned file of the batch in progress
    nextCommit,         \* the next commit identifier a file attempt produces
    dispatched,         \* events the event sink has received, oldest first
    planLog,            \* what each planning call settled with, oldest first
    batchLog,           \* what each refactorBatch call resolved with, oldest first
    calls,              \* how often each collaborator was started / finished
    thrown,             \* the last error a collaborator raised
    error,              \* the error planAndRefactor rejected with
    returned,           \* the value planAndRefactor resolved with
    mFrom, mInto, mThird,   \* operands of the merge (SpecMerge)
    mOut,                   \* `into` after merging mFrom into mInto (SpecMerge)
    mLeft, mRight, mIdent,  \* merges of the three operands (SpecMerge)
    mSwap,                  \* mFrom after merging mInto into it (SpecMerge)
    mPhase                  \* "build" or "merged" (SpecMerge)

loopVars == <<pc, planResult, repeatedPlanResult, plannedFiles, planFilesResults,
              files, result, batchPos, nextCommit, dispatched, planLog,
              batchLog, calls, thrown, error, returned>>

mergeVars == <<mFrom, mInto, mThird, mOut, mLeft, mRight, mIdent, mSwap, mPhase>>

VARIABLES
    cache,              \* persisted entries: fingerprint -> output (SpecCache)
    transformLog,       \* the runs of the underlying transform, oldest first
    callLog,            \* the calls of the memoized step, oldest first
    attempt,            \* the attempt of a step in progress (SpecRetry)
    steps,              \* the steps of a result, oldest first (SpecSteps)
    fileResult,         \* the result built from the steps (SpecSteps)
    heap,               \* the arrays of the records, by reference (SpecAlias)
    fromRef,            \* the record `from`: path -> reference into heap
    intoRef,            \* the record `into`: path -> reference into heap
    fromBefore,         \* the contents of `from` when the merge was called
    aliasPhase          \* "build" before the merge, "merged" after it

cacheVars == <<cache, transformLog, callLog>>

retryVars == <<attempt>>

stepVars == <<steps, fileResult>>

aliasVars == <<heap, fromRef, intoRef, fromBefore, aliasPhase>>

extraVars == <<cacheVars, retryVars, stepVars, aliasVars>>

vars == <<loopVars, mergeVars, extraVars>>

NoPlanResult == [plannedFiles |-> <<>>, rawResponse |-> ""]

NoThrow == [by |-> "none", err |-> NoError, call |-> 0]

NoResult == [settled |-> FALSE]

InitLoop ==
    /\ pc = "start"
    /\ planResult = NoPlanResult
    /\ repeatedPlanResult = NoPlanResult
    /\ plannedFiles = <<>>
    /\ planFilesResults = <<>>
    /\ files = EmptyFilesResult
    /\ result = EmptyFilesResult
    /\ batchPos = 0
    /\ nextCommit = 1
    /\ dispatched = <<>>
    /\ planLog = <<>>
    /\ batchLog = <<>>
    /\ calls = [planFiles |-> 0, refactorBatch |-> 0, batchDone |-> 0,
                reset |-> 0, resetDone |-> 0, merge |-> 0]
    /\ thrown = NoThrow
    /\ error = NoError
    /\ returned = NoResult

InitMergeIdle ==
    /\ mFrom = EmptyFilesResult
    /\ mInto = EmptyFilesResult
    /\ mThird = EmptyFilesResult
    /\ mOut = EmptyFilesResult
    /\ mLeft = EmptyFilesResult
    /\ mRight = EmptyFilesResult
    /\ mIdent = EmptyFilesResult
    /\ mSwap = EmptyFilesResult
    /\ mPhase = "idle"

InitCacheIdle ==
    /\ cache = EmptyRecord
    /\ transformLog = <<>>
    /\ callLog = <<>>

InitRetryIdle ==
    /\ attempt = [status |-> "idle", mapping |-> EmptyRecord, budget |-> 0,
                  model |-> "none", n |-> 0, history |-> <<>>]

InitStepsIdle ==
    /\ steps = <<>>
    /\ fileResult = [status |-> "none"]

InitAliasIdle ==
    /\ heap = <<>>
    /\ fromRef = EmptyRecord
    /\ intoRef = EmptyRecord
    /\ fromBefore = EmptyRecord
    /\ aliasPhase = "build"

InitExtraIdle ==
    /\ InitCacheIdle
    /\ InitRetryIdle
    /\ InitStepsIdle
    /\ InitAliasIdle

Init == InitLoop /\ InitMergeIdle /\ InitExtraIdle


(* ------------------------- planAndRefactor ---------------------------- *)

Bump(counter) == [calls EXCEPT ![counter] = @ + 1]

\* Plans the Plan Producer may answer with: the run is cut off after
\* MaxBatches batches by making it answer [] or raise.
AllowedPlans ==
    IF calls.refactorBatch < MaxBatches THEN Plans ELSE {<<>>}

\* planAndRefactor is called: line 43 starts the first planFiles call.
PlanFilesInitialCall ==
    /\ pc = "start"
    /\ pc' = "planFiles0"
    /\ calls' = Bump("planFiles")
    /\ UNCHANGED <<planResult, repeatedPlanResult, plannedFiles,
                   planFilesResults, files, result, batchPos, nextCommit,
                   dispatched, planLog, thrown, error, returned>>
    /\ UNCHANGED <<batchLog, mergeVars, extraVars>>

\* line 43: `await planFiles(input)` resolves.
PlanFilesInitialResolve ==
    /\ pc = "planFiles0"
    /\ \E plan \in AllowedPlans, raw \in RawResponses :
          /\ planResult' = [plannedFiles |-> plan, rawResponse |-> raw]
          /\ planLog' = Append(planLog, [plannedFiles |-> plan, rawResponse |-> raw])
    /\ pc' = "dispatch0"
    /\ UNCHANGED <<repeatedPlanResult, plannedFiles, planFilesResults, files,
                   result, batchPos, nextCommit, dispatched, calls, thrown,
                   error, returned>>
    /\ UNCHANGED <<batchLog, mergeVars, extraVars>>

\* line 43: `await planFiles(input)` rejects; there is no handler around
\* the first call, so planAndRefactor rejects with the same error.
PlanFilesInitialReject ==
    /\ pc = "planFiles0"
    /\ \E err \in Errors :
          /\ thrown' = [by |-> "planFiles", err |-> err, call |-> calls.planFiles]
          /\ error' = err
    /\ pc' = "rejected"
    /\ UNCHANGED <<planResult, repeatedPlanResult, plannedFiles,
                   planFilesResults, files, result, batchPos, nextCommit,
                   dispatched, planLog, calls, returned>>
    /\ UNCHANGED <<batchLog, mergeVars, extraVars>>

\* line 46: deps.dispatch(planFilesComplete(planResult)).
DispatchInitial ==
    /\ pc = "dispatch0"
    /\ dispatched' = Append(dispatched, planResult)
    /\ pc' = "push0"
    /\ UNCHANGED <<planResult, repeatedPlanResult, plannedFiles,
                   planFilesResults, files, result, batchPos, nextCommit,
                   planLog, calls, thrown, error, returned>>
    /\ UNCHANGED <<batchLog, mergeVars, extraVars>>

\* lines 48-53: the first planning record (a copy of the list), then
\* `plannedFiles` becomes the array of planResult.
PushInitial ==
    /\ pc = "push0"
    /\ planFilesResults' = Append(planFilesResults,
            [plannedFiles |-> planResult.plannedFiles,
             rawResponse  |-> planResult.rawResponse])
    /\ plannedFiles' = planResult.plannedFiles
    /\ pc' = "while"
    /\ UNCHANGED <<planResult, repeatedPlanResult, files, result, batchPos,
                   nextCommit, dispatched, planLog, calls, thrown, error,
                   returned>>
    /\ UNCHANGED <<batchLog, mergeVars, extraVars>>

\* Mutant of WhileEnter: the loop body runs before the test (do-while).
WhileEnterUntested ==
    /\ pc = "while"
    /\ pc' = "refactorBatch"
    /\ result' = EmptyFilesResult
    /\ batchPos' = 1
    /\ calls' = Bump("refactorBatch")
    /\ UNCHANGED <<planResult, repeatedPlanResult, plannedFiles,
                   planFilesResults, files, nextCommit, dispatched, planLog,
                   thrown, error, returned>>
    /\ UNCHANGED <<batchLog, mergeVars, extraVars>>

\* lines 55-59: the test holds; refactorBatch({plannedFiles, ...input}) starts.
WhileEnter ==
    /\ pc = "while"
    /\ Len(plannedFiles) > 0
    /\ pc' = "refactorBatch"
    /\ result' = EmptyFilesResult
    /\ batchPos' = 1
    /\ calls' = Bump("refactorBatch")
    /\ UNCHANGED <<planResult, repeatedPlanResult, plannedFiles,
                   planFilesResults, files, nextCommit, dispatched, planLog,
                   thrown, error, returned>>
    /\ UNCHANGED <<batchLog, mergeVars, extraVars>>

\* lines 55, 108-111: the test fails; planAndRefactor resolves.
WhileExit ==
    /\ pc = "while"
    /\ Len(plannedFiles) = 0
    /\ returned' = [settled |-> TRUE,
                    accepted |-> files.accepted,
                    discarded |-> files.discarded,
                    planFilesResults |-> planFilesResults]
    /\ pc' = "resolved"
    /\ UNCHANGED <<planResult, repeatedPlanResult, plannedFiles,
                   planFilesResults, files, result, batchPos, nextCommit,
                   dispatched, planLog, calls, thrown, error>>
    /\ UNCHANGED <<batchLog, mergeVars, extraVars>>

\* Mutant of RefactorBatchFile: a file that fails ends the batch.
RefactorBatchFileAbortsOnFailure ==
    /\ pc = "refactorBatch"
    /\ batchPos <= Len(plannedFiles)
    /\ \E status \in Statuses :
          LET r == [filePath |-> plannedFiles[batchPos], status |-> status,
                    lastCommit |-> nextCommit]
          IN  /\ result' = IF status = "success"
                           THEN [result EXCEPT !.accepted =
                                     pushRefactorFileResults(r, @)]
                           ELSE [result EXCEPT !.discarded =
                                     pushRefactorFileResults(r, @)]
              /\ batchPos' = IF status = "success" THEN batchPos + 1
                             ELSE Len(plannedFiles) + 1
    /\ nextCommit' = nextCommit + 1
    /\ UNCHANGED <<pc, planResult, repeatedPlanResult, plannedFiles,
                   planFilesResults, files, dispatched, planLog, calls, thrown,
                   error, returned>>
    /\ UNCHANGED <<batchLog, mergeVars, extraVars>>

\* The Batch Refactorer handles the next planned file: a validated file is
\* recorded under accepted, an exhausted one under discarded.
RefactorBatchFile ==
    /\ pc = "refactorBatch"
    /\ batchPos <= Len(plannedFiles)
    /\ \E status \in Statuses :
          LET r == [filePath |-> plannedFiles[batchPos], status |-> status,
                    lastCommit |-> nextCommit]
          IN  result' = IF status = "success"
                        THEN [result EXCEPT !.accepted =
                                  pushRefactorFileResults(r, @)]
                        ELSE [result EXCEPT !.discarded =
                                  pushRefactorFileResults(r, @)]
    /\ batchPos' = batchPos + 1
    /\ nextCommit' = nextCommit + 1
    /\ UNCHANGED <<pc, planResult, repeatedPlanResult, plannedFiles,
                   planFilesResults, files, dispatched, planLog, calls, thrown,
                   error, returned>>
    /\ UNCHANGED <<batchLog, mergeVars, extraVars>>

\* Mutant of RefactorBatchResolve: the rollback of lines 61-64 is left out.
RefactorBatchResolveNoReset ==
    /\ pc = "refactorBatch"
    /\ batchPos > Len(plannedFiles)
    /\ pc' = "merge"
    /\ calls' = Bump("batchDone")
    /\ batchLog' = Append(batchLog, result)
    /\ UNCHANGED <<planResult, repeatedPlanResult, plannedFiles,
                   planFilesResults, files, result, batchPos, nextCommit,
                   dispatched, planLog, thrown, error, returned>>
    /\ UNCHANGED <<mergeVars, extraVars>>

\* line 56: `await refactorBatch(...)` resolves with `result`.
RefactorBatchResolve ==
    /\ pc = "refactorBatch"
    /\ batchPos > Len(plannedFiles)
    /\ pc' = "reset"
    /\ calls' = Bump("batchDone")
    /\ batchLog' = Append(batchLog, result)
    /\ UNCHANGED <<planResult, repeatedPlanResult, plannedFiles,
                   planFilesResults, files, result, batchPos, nextCommit,
                   dispatched, planLog, thrown, error, returned>>
    /\ UNCHANGED <<mergeVars, extraVars>>

\* line 56: `await refactorBatch(...)` rejects; nothing catches it.
RefactorBatchReject ==
    /\ pc = "refactorBatch"
    /\ \E err \in Errors :
          /\ thrown' = [by |-> "refactorBatch", err |-> err,
                        call |-> calls.refactorBatch]
          /\ error' = err
    /\ pc' = "rejected"
    /\ UNCHANGED <<planResult, repeatedPlanResult, plannedFiles,
                   planFilesResults, files, result, batchPos, nextCommit,
                   dispatched, planLog, calls, returned>>
    /\ UNCHANGED <<batchLog, mergeVars, extraVars>>

\* line 61: resetToLastAcceptedCommit({location, result}) starts.
ResetCall ==
    /\ pc = "reset"
    /\ pc' = "resetting"
    /\ calls' = Bump("reset")
    /\ UNCHANGED <<planResult, repeatedPlanResult, plannedFiles,
                   planFilesResults, files, result, batchPos, nextCommit,
                   dispatched, planLog, thrown, error, returned>>
    /\ UNCHANGED <<batchLog, mergeVars, extraVars>>

\* line 61: `await resetToLastAcceptedCommit(...)` resolves.
ResetResolve ==
    /\ pc = "resetting"
    /\ pc' = "merge"
    /\ calls' = Bump("resetDone")
    /\ UNCHANGED <<planResult, repeatedPlanResult, plannedFiles,
                   planFilesResults, files, result, batchPos, nextCommit,
                   dispatched, planLog, thrown, error, returned>>
    /\ UNCHANGED <<batchLog, mergeVars, extraVars>>

\* line 61: `await resetToLastAcceptedCommit(...)` rejects.
ResetReject ==
    /\ pc = "resetting"
    /\ \E err \in Errors :
          /\ thrown' = [by |-> "resetToLastAcceptedCommit", err |-> err,
                        call |-> calls.reset]
          /\ error' = err
    /\ pc' = "rejected"
    /\ UNCHANGED <<planResult, repeatedPlanResult, plannedFiles,
                   planFilesResults, files, result, batchPos, nextCommit,
                   dispatched, planLog, calls, returned>>
    /\ UNCHANGED <<batchLog, mergeVars, extraVars>>

\* lines 66-69: mutateToMergeRefactorFilesResults({from: result, into: files}).
MergeStep ==
    /\ pc = "merge"
    /\ files' = mutateToMergeRefactorFilesResults(result, files)
    /\ pc' = "replan"
    /\ calls' = Bump("merge")
    /\ UNCHANGED <<planResult, repeatedPlanResult, plannedFiles,
                   planFilesResults, result, batchPos, nextCommit, dispatched,
                   planLog, thrown, error, returned>>
    /\ UNCHANGED <<batchLog, mergeVars, extraVars>>

\* line 71: planFiles(input) is called again.
PlanFilesCall ==
    /\ pc = "replan"
    /\ pc' = "planFiles"
    /\ calls' = Bump("planFiles")
    /\ UNCHANGED <<planResult, repeatedPlanResult, plannedFiles,
                   planFilesResults, files, result, batchPos, nextCommit,
                   dispatched, planLog, thrown, error, returned>>
    /\ UNCHANGED <<batchLog, mergeVars, extraVars>>

\* line 71: the repeated planFiles call resolves.
PlanFilesResolve ==
    /\ pc = "planFiles"
    /\ \E plan \in AllowedPlans, raw \in RawResponses :
          /\ repeatedPlanResult' = [plannedFiles |-> plan, rawResponse |-> raw]
          /\ planLog' = Append(planLog, [plannedFiles |-> plan, rawResponse |-> raw])
    /\ pc' = "dispatch"
    /\ UNCHANGED <<planResult, plannedFiles, planFilesResults, files, result,
                   batchPos, nextCommit, dispatched, calls, thrown, error,
                   returned>>
    /\ UNCHANGED <<batchLog, mergeVars, extraVars>>

\* Mutant of PlanFilesCatch: the handler swallows every error.
PlanFilesCatchAll ==
    /\ pc = "planFiles"
    /\ \E err \in Errors :
          thrown' = [by |-> "planFiles", err |-> err, call |-> calls.planFiles]
    /\ repeatedPlanResult' = [plannedFiles |-> <<>>, rawResponse |-> ""]
    /\ planLog' = Append(planLog, [plannedFiles |-> <<>>, rawResponse |-> ""])
    /\ pc' = "dispatch"
    /\ UNCHANGED <<error, planResult, plannedFiles, planFilesResults, files,
                   result, batchPos, nextCommit, dispatched, calls, returned>>
    /\ UNCHANGED <<batchLog, mergeVars, extraVars>>

\* Mutant of PlanFilesCatch: the handler is missing, every error rejects.
PlanFilesCatchNone ==
    /\ pc = "planFiles"
    /\ \E err \in Errors :
          /\ thrown' = [by |-> "planFiles", err |-> err, call |-> calls.planFiles]
          /\ error' = err
    /\ pc' = "rejected"
    /\ UNCHANGED <<repeatedPlanResult, planLog, planResult, plannedFiles,
                   planFilesResults, files, result, batchPos, nextCommit,
                   dispatched, calls, returned>>
    /\ UNCHANGED <<batchLog, mergeVars, extraVars>>

\* lines 71-91: the repeated planFiles call rejects and the .catch handler
\* runs: CycleDetectedError becomes an empty plan, any other error rejects.
PlanFilesCatch ==
    /\ pc = "planFiles"
    /\ \E err \in Errors :
          /\ thrown' = [by |-> "planFiles", err |-> err, call |-> calls.planFiles]
          /\ IF err = CycleDetectedError
             THEN /\ repeatedPlanResult' = [plannedFiles |-> <<>>, rawResponse |-> ""]
                  /\ planLog' = Append(planLog,
                                   [plannedFiles |-> <<>>, rawResponse |-> ""])
                  /\ pc' = "dispatch"
                  /\ UNCHANGED error
             ELSE /\ error' = err
                  /\ pc' = "rejected"
                  /\ UNCHANGED <<repeatedPlanResult, planLog>>
    /\ UNCHANGED <<planResult, plannedFiles, planFilesResults, files, result,
                   batchPos, nextCommit, dispatched, calls, returned>>
    /\ UNCHANGED <<batchLog, mergeVars, extraVars>>

\* Mutant of DispatchRepeated: a substituted empty plan is not dispatched.
DispatchRepeatedUnlessSubstituted ==
    /\ pc = "dispatch"
    /\ dispatched' = IF repeatedPlanResult.rawResponse = ""
                     THEN dispatched
                     ELSE Append(dispatched, repeatedPlanResult)
    /\ pc' = "splice"
    /\ UNCHANGED <<planResult, repeatedPlanResult, plannedFiles,
                   planFilesResults, files, result, batchPos, nextCommit,
                   planLog, calls, thrown, error, returned>>
    /\ UNCHANGED <<batchLog, mergeVars, extraVars>>

\* line 94: deps.dispatch(planFilesComplete(repeatedPlanResult)).
DispatchRepeated ==
    /\ pc = "dispatch"
    /\ dispatched' = Append(dispatched, repeatedPlanResult)
    /\ pc' = "splice"
    /\ UNCHANGED <<planResult, repeatedPlanResult, plannedFiles,
                   planFilesResults, files, result, batchPos, nextCommit,
                   planLog, calls, thrown, error, returned>>
    /\ UNCHANGED <<batchLog, mergeVars, extraVars>>

\* plannedFiles.splice(start, deleteCount, ...items): the array afterwards.
Splice(array, start, deleteCount, items) ==
    SubSeq(array, 1, start) \o items \o SubSeq(array, start + deleteCount + 1, Len(array))

\* lines 96-100: the working array is emptied and refilled in place; it is
\* the array of planResult (line 53), which therefore changes with it.
\* Mutant of SpliceStep: the first planning record holds the working array
\* itself instead of a copy, so the replacement shows through it.
SpliceStepSharedRecord ==
    /\ pc = "splice"
    /\ plannedFiles' = Splice(plannedFiles, 0, Len(plannedFiles),
                              repeatedPlanResult.plannedFiles)
    /\ planResult' = [planResult EXCEPT !.plannedFiles = plannedFiles']
    /\ planFilesResults' = [planFilesResults EXCEPT ![1].plannedFiles = plannedFiles']
    /\ pc' = "push"
    /\ UNCHANGED <<repeatedPlanResult, files,
                   result, batchPos, nextCommit, dispatched, planLog, calls,
                   thrown, error, returned>>
    /\ UNCHANGED <<batchLog, mergeVars, extraVars>>

SpliceStep ==
    /\ pc = "splice"
    /\ plannedFiles' = Splice(plannedFiles, 0, Len(plannedFiles),
                              repeatedPlanResult.plannedFiles)
    /\ planResult' = [planResult EXCEPT !.plannedFiles = plannedFiles']
    /\ pc' = "push"
    /\ UNCHANGED <<repeatedPlanResult, planFilesResults, files,
                   result, batchPos, nextCommit, dispatched, planLog, calls,
                   thrown, error, returned>>
    /\ UNCHANGED <<batchLog, mergeVars, extraVars>>

\* Mutant of PushRepeated: the record of a repeated planning call is lost.
PushRepeatedLost ==
    /\ pc = "push"
    /\ pc' = "while"
    /\ UNCHANGED <<planFilesResults, planResult, repeatedPlanResult,
                   plannedFiles, files, result, batchPos, nextCommit,
                   dispatched, planLog, calls, thrown, error, returned>>
    /\ UNCHANGED <<batchLog, mergeVars, extraVars>>

\* lines 102-105: the record of the repeated planning call.
PushRepeated ==
    /\ pc = "push"
    /\ planFilesResults' = Append(planFilesResults,
            [plannedFiles |-> repeatedPlanResult.plannedFiles,
             rawResponse  |-> repeatedPlanResult.rawResponse])
    /\ pc' = "while"
    /\ UNCHANGED <<planResult, repeatedPlanResult, plannedFiles, files, result,
                   batchPos, nextCommit, dispatched, planLog, calls, thrown,
                   error, returned>>
    /\ UNCHANGED <<batchLog, mergeVars, extraVars>>

Next ==
    \/ PlanFilesInitialCall
    \/ PlanFilesInitialResolve
    \/ PlanFilesInitialReject
    \/ DispatchInitial
    \/ PushInitial
    \/ WhileEnter
    \/ WhileExit
    \/ RefactorBatchFile
    \/ RefactorBatchResolve
    \/ RefactorBatchReject
    \/ ResetCall
    \/ ResetResolve
    \/ ResetReject
    \/ MergeStep
    \/ PlanFilesCall
    \/ PlanFilesResolve
    \/ PlanFilesCatch
    \/ DispatchRepeated
    \/ SpliceStep
    \/ PushRepeated

Spec == Init /\ [][Next]_vars

(* ----------------------- the merge on its own ------------------------- *)

\* Number of results a RefactorFilesResult holds.
RECURSIVE SumLen(_, _)
SumLen(rec, keys) ==
    IF keys = {} THEN 0
    ELSE LET k == CHOOSE x \in keys : TRUE
         IN  Len(rec[k]) + SumLen(rec, keys \ {k})

Size(fr) == SumLen(fr.accepted, DOMAIN fr.accepted)
            + SumLen(fr.discarded, DOMAIN fr.discarded)

\* A result may be pushed under accepted whatever its status
\* (z.array(refactorResultSchema)), under discarded only when it is a
\* failure (z.array(refactorFailedResultSchema)).
Pushable(kind) ==
    IF kind = "accepted" THEN RefactorResults
    ELSE {r \in RefactorResults : r.status = "failure"}

\* pushRefactorFileResults({result, into: fr[kind]})
PushUnder(fr, kind, r) ==
    [fr EXCEPT ![kind] = pushRefactorFileResults(r, @)]

\* merge(A, B): A after mutateToMergeRefactorFilesResults({from: B, into: A}).
Merge(A, B) == mutateToMergeRefactorFilesResults(B, A)

InitMerge ==
    /\ InitLoop
    /\ InitExtraIdle
    /\ mFrom = EmptyFilesResult
    /\ mInto = EmptyFilesResult
    /\ mThird = EmptyFilesResult
    /\ mOut = EmptyFilesResult
    /\ mLeft = EmptyFilesResult
    /\ mRight = EmptyFilesResult
    /\ mIdent = EmptyFilesResult
    /\ mSwap = EmptyFilesResult
    /\ mPhase = "build"

CanPush ==
    /\ mPhase = "build"
    /\ Size(mFrom) + Size(mInto) + Size(mThird) < MaxEntries

\* A result is recorded in the operand `from`.
PushFrom ==
    /\ CanPush
    /\ \E kind \in {"accepted", "discarded"} : \E r \in Pushable(kind) :
          mFrom' = PushUnder(mFrom, kind, r)
    /\ UNCHANGED <<mInto, mThird, mOut, mLeft, mRight, mIdent, mSwap, mPhase, loopVars, extraVars>>

\* A result is recorded in the operand `into`.
PushInto ==
    /\ CanPush
    /\ \E kind \in {"accepted", "discarded"} : \E r \in Pushable(kind) :
          mInto' = PushUnder(mInto, kind, r)
    /\ UNCHANGED <<mFrom, mThird, mOut, mLeft, mRight, mIdent, mSwap, mPhase, loopVars, extraVars>>

\* A result is recorded in the third operand.
PushThird ==
    /\ CanPush
    /\ \E kind \in {"accepted", "discarded"} : \E r \in Pushable(kind) :
          mThird' = PushUnder(mThird, kind, r)
    /\ UNCHANGED <<mFrom, mInto, mOut, mLeft, mRight, mIdent, mSwap, mPhase, loopVars, extraVars>>

\* The operands are merged: mFrom into mInto, the three of them in both
\* groupings, and mFrom into an empty result.
MergeOperands ==
    /\ mPhase = "build"
    /\ mOut' = mutateToMergeRefactorFilesResults(mFrom, mInto)
    /\ mLeft' = Merge(Merge(mInto, mFrom), mThird)
    /\ mRight' = Merge(mInto, Merge(mFrom, mThird))
    /\ mIdent' = Merge(EmptyFilesResult, mFrom)
    /\ mSwap' = Merge(mFrom, mInto)
    /\ mPhase' = "merged"
    /\ UNCHANGED <<mFrom, mInto, mThird, loopVars, extraVars>>

NextMerge ==
    \/ PushFrom
    \/ PushInto
    \/ PushThird
    \/ MergeOperands

SpecMerge == InitMerge /\ [][NextMerge]_vars

\* C9: after mutateToMergeRefactorFilesResults(from, into), for every path
\* into.accepted[path] is its previous value followed by from.accepted[path]
\* and into.discarded[path] its previous value followed by
\* from.discarded[path]; a path absent from `from` keeps its previous array,
\* and nothing crosses between accepted and discarded.
C9_MergeAppendsPerPath ==
    mPhase = "merged" =>
        \A kind \in {"accepted", "discarded"} :
            /\ DOMAIN mOut[kind] = DOMAIN mInto[kind] \cup DOMAIN mFrom[kind]
            /\ \A path \in Paths :
                  /\ Entries(mOut[kind], path) =
                         Entries(mInto[kind], path) \o Entries(mFrom[kind], path)
                  /\ path \notin DOMAIN mFrom[kind] =>
                         /\ path \in DOMAIN mOut[kind] <=> path \in DOMAIN mInto[kind]
                         /\ Entries(mOut[kind], path) = Entries(mInto[kind], path)

C9_Witness ==
    /\ mPhase = "merged"
    /\ "a" \in DOMAIN mInto.accepted
    /\ Len(mInto.accepted["a"]) = 2
    /\ mInto.accepted["a"][1] # mInto.accepted["a"][2]
    /\ "a" \in DOMAIN mFrom.accepted
    /\ mFrom.accepted["a"][1] # mInto.accepted["a"][2]
    /\ mFrom.accepted["a"][1] # mInto.accepted["a"][1]
    /\ mOut.accepted["a"] = mInto.accepted["a"] \o mFrom.accepted["a"]

\* C10: the empty result is an identity of the merge and the merge is
\* associative: merge(empty, X) = X and
\* merge(merge(A, B), C) = merge(A, merge(B, C)).
C10_MergeIdentityAndAssociativity ==
    mPhase = "merged" =>
        /\ mIdent = mFrom
        /\ mLeft = mRight
        /\ \A kind \in {"accepted", "discarded"} : \A path \in Paths :
              Entries(mLeft[kind], path) =
                  Entries(mInto[kind], path) \o Entries(mFrom[kind], path)
                      \o Entries(mThird[kind], path)

C10_Witness ==
    /\ mPhase = "merged"
    /\ "b" \in DOMAIN mInto.discarded
    /\ "b" \in DOMAIN mFrom.discarded
    /\ "b" \in DOMAIN mThird.discarded
    /\ mFrom.discarded["b"] # mThird.discarded["b"]
    /\ Len(mLeft.discarded["b"]) = 3
    /\ mIdent = mFrom

Kinds == {"accepted", "discarded"}

\* The two operands have no path in common, in accepted or in discarded.
DisjointKeys(A, B) ==
    \A kind \in Kinds : DOMAIN A[kind] \cap DOMAIN B[kind] = {}

\* The paths both operands hold under `kind`.
SharedKeys(A, B, kind) == DOMAIN A[kind] \cap DOMAIN B[kind]

\* C11 as stated: the merge commutes on operands with disjoint key sets,
\* and does not commute on operands that share a key with different
\* non-empty histories, where the result is the first operand's history
\* followed by the second's.
C11_NotCommutativeOnAnySharedKey ==
    mPhase = "merged" =>
        /\ DisjointKeys(mInto, mFrom) => mOut = mSwap
        /\ \A kind \in Kinds : \A path \in SharedKeys(mInto, mFrom, kind) :
              (mInto[kind][path] # mFrom[kind][path]
                 /\ mInto[kind][path] # <<>> /\ mFrom[kind][path] # <<>>) =>
                  /\ mOut[kind][path] = mInto[kind][path] \o mFrom[kind][path]
                  /\ mOut # mSwap

\* C11 amended: the merge commutes on operands with disjoint key sets; at a
\* shared key merge(A, B) holds A's history followed by B's and merge(B, A)
\* B's followed by A's, so the two merges differ exactly when these two
\* concatenations differ at some shared key, as they do whenever the two
\* histories start with different results.
C11_CommutesUnlessConcatenationsDiffer ==
    mPhase = "merged" =>
        /\ DisjointKeys(mInto, mFrom) => mOut = mSwap
        /\ \A kind \in Kinds : \A path \in SharedKeys(mInto, mFrom, kind) :
              /\ mOut[kind][path] = mInto[kind][path] \o mFrom[kind][path]
              /\ mSwap[kind][path] = mFrom[kind][path] \o mInto[kind][path]
              /\ mInto[kind][path][1] # mFrom[kind][path][1] => mOut # mSwap
        /\ mOut # mSwap <=>
              \E kind \in Kinds : \E path \in SharedKeys(mInto, mFrom, kind) :
                  mInto[kind][path] \o mFrom[kind][path]
                      # mFrom[kind][path] \o mInto[kind][path]

C11_Witness ==
    /\ mPhase = "merged"
    /\ "a" \in SharedKeys(mInto, mFrom, "discarded")
    /\ mInto.discarded["a"][1] # mFrom.discarded["a"][1]
    /\ "b" \in DOMAIN mFrom.accepted \ DOMAIN mInto.accepted
    /\ mOut # mSwap

(* ------------------- properties of planAndRefactor -------------------- *)

\* The results of the batches of `log`, per path, oldest first.
RECURSIVE History(_, _, _)
History(log, kind, path) ==
    IF log = <<>> THEN <<>>
    ELSE Entries(log[1][kind], path) \o History(Tail(log), kind, path)

\* `rec` holds, for every path, exactly the history of the batches of `log`.
HoldsHistory(rec, log, kind) ==
    /\ DOMAIN rec \subseteq Paths
    /\ \A path \in Paths : Entries(rec, path) = History(log, kind, path)

\* Number of repeated (in-loop) occurrences among n occurrences.
Repeated(n) == IF n > 0 THEN n - 1 ELSE 0

\* A repeated planning call (one made after a batch) raised the cycle signal.
CycleOnReplan ==
    /\ thrown.by = "planFiles"
    /\ thrown.err = CycleDetectedError
    /\ thrown.call >= 2

\* C1: when a planning call made after a batch raises CycleDetectedError,
\* planAndRefactor does not reject: an empty plan is substituted, no further
\* batch or rollback starts, and it resolves with exactly the results of the
\* batches completed before that planning call.
C1_CycleOnReplanEndsRunNormally ==
    CycleOnReplan =>
        /\ pc \in {"dispatch", "splice", "push", "while", "resolved"}
        /\ error = NoError
        /\ repeatedPlanResult = [plannedFiles |-> <<>>, rawResponse |-> ""]
        /\ calls.planFiles = thrown.call
        /\ calls.refactorBatch = thrown.call - 1
        /\ calls.reset = thrown.call - 1
        /\ Len(batchLog) = thrown.call - 1
        /\ pc = "resolved" =>
              /\ returned.settled
              /\ HoldsHistory(returned.accepted, batchLog, "accepted")
              /\ HoldsHistory(returned.discarded, batchLog, "discarded")

C1_Witness ==
    /\ CycleOnReplan
    /\ pc = "resolved"
    /\ thrown.call = 3
    /\ returned.accepted # EmptyRecord
    /\ returned.discarded # EmptyRecord

\* C2: a cycle signal raised by any planning call, the first one included,
\* ends the run normally and never as a rejection.
C2_CycleNeverRejects ==
    (thrown.by = "planFiles" /\ thrown.err = CycleDetectedError) =>
        (pc # "rejected" /\ error = NoError)

\* C3: an error other than the cycle signal, raised by a planning call, by
\* refactorBatch or by resetToLastAcceptedCommit, makes planAndRefactor reject
\* with that error; nothing is returned and nothing runs after the failing
\* step (every collaborator's count is what it was when the error was raised).
C3_OtherErrorsRejectAndStop ==
    thrown.err = OtherError =>
        /\ pc = "rejected"
        /\ error = OtherError
        /\ returned = NoResult
        /\ thrown.by = "planFiles" =>
              /\ calls.planFiles = thrown.call
              /\ Len(planLog) = thrown.call - 1
              /\ Len(dispatched) = thrown.call - 1
              /\ calls.refactorBatch = thrown.call - 1
              /\ calls.reset = thrown.call - 1
              /\ calls.merge = thrown.call - 1
        /\ thrown.by = "refactorBatch" =>
              /\ calls.refactorBatch = thrown.call
              /\ calls.batchDone = thrown.call - 1
              /\ calls.planFiles = thrown.call
              /\ Len(dispatched) = thrown.call
              /\ calls.reset = thrown.call - 1
              /\ calls.merge = thrown.call - 1
        /\ thrown.by = "resetToLastAcceptedCommit" =>
              /\ calls.reset = thrown.call
              /\ calls.resetDone = thrown.call - 1
              /\ calls.refactorBatch = thrown.call
              /\ calls.planFiles = thrown.call
              /\ Len(dispatched) = thrown.call
              /\ calls.merge = thrown.call - 1

C3_Witness ==
    /\ thrown.err = OtherError
    /\ thrown.by = "planFiles"
    /\ thrown.call = 2
    /\ pc = "rejected"
    /\ files # EmptyFilesResult

\* C5: in every iteration the steps run in the order batch-refactor,
\* rollback, merge, re-plan, notify: each step has started at most once more
\* than the step after it, the rollback runs only between the end of the
\* batch and the merge, and no file of a batch is being handled while a
\* rollback runs.
C5_StepsOfAnIterationInOrder ==
    /\ calls.refactorBatch >= calls.batchDone
    /\ calls.batchDone >= calls.reset
    /\ calls.reset >= calls.resetDone
    /\ calls.resetDone >= calls.merge
    /\ calls.merge >= Repeated(calls.planFiles)
    /\ Repeated(calls.planFiles) >= Repeated(Len(planLog))
    /\ Repeated(Len(planLog)) >= Repeated(Len(dispatched))
    /\ Repeated(Len(dispatched)) >= calls.refactorBatch - 1
    /\ calls.refactorBatch <= Len(dispatched)
    /\ calls.reset > calls.resetDone =>
          /\ pc \in {"resetting", "rejected"}
          /\ calls.refactorBatch = calls.batchDone
          /\ batchPos > Len(plannedFiles)
          /\ result = batchLog[Len(batchLog)]
    /\ pc = "merge" => calls.resetDone = calls.batchDone
    /\ pc = "planFiles" => calls.merge = calls.resetDone

C5_Witness ==
    /\ pc = "resetting"
    /\ calls.reset = 2
    /\ calls.merge = 1
    /\ Len(dispatched) = 2

\* C6: every planning attempt is dispatched exactly once, after the planning
\* call settled and before the next batch starts, the substituted empty plan
\* included; at termination the dispatched events are the planning records,
\* in the same order.
C6_EveryPlanDispatchedOnce ==
    /\ Len(dispatched) <= Len(planLog)
    /\ \A i \in 1..Len(dispatched) : dispatched[i] = planLog[i]
    /\ pc \in {"refactorBatch", "reset", "resetting", "merge", "replan",
               "push0", "while", "splice", "push", "resolved"} =>
          dispatched = planLog
    /\ pc = "resolved" =>
          /\ Len(dispatched) = calls.planFiles
          /\ Len(dispatched) = Len(returned.planFilesResults)
          /\ \A i \in 1..Len(dispatched) :
                /\ dispatched[i].plannedFiles =
                       returned.planFilesResults[i].plannedFiles
                /\ dispatched[i].rawResponse =
                       returned.planFilesResults[i].rawResponse

C6_Witness ==
    /\ pc = "resolved"
    /\ CycleOnReplan
    /\ Len(dispatched) = 2
    /\ dispatched[1].plannedFiles = <<"a", "b">>
    /\ dispatched[2] = [plannedFiles |-> <<>>, rawResponse |-> ""]

\* C7: planFilesResults holds one record per planning call, in call order;
\* on normal termination there is one record more than batches executed,
\* every record but the last has a non-empty plannedFiles and the last one
\* has an empty plannedFiles.
C7_OneRecordPerPlanningCall ==
    /\ Len(planFilesResults) <= Len(planLog)
    /\ \A i \in 1..Len(planFilesResults) :
          /\ planFilesResults[i].plannedFiles = planLog[i].plannedFiles
          /\ planFilesResults[i].rawResponse = planLog[i].rawResponse
    /\ pc = "resolved" =>
          LET records == returned.planFilesResults
          IN  /\ records = planFilesResults
              /\ Len(records) = calls.planFiles
              /\ Len(records) = calls.batchDone + 1
              /\ \A i \in 1..(Len(records) - 1) :
                    Len(records[i].plannedFiles) > 0
              /\ Len(records[Len(records)].plannedFiles) = 0

C7_Witness ==
    /\ pc = "resolved"
    /\ calls.batchDone = 2
    /\ Len(returned.planFilesResults) = 3
    /\ returned.planFilesResults[1].plannedFiles = <<"a", "b">>
    /\ returned.planFilesResults[2].plannedFiles = <<"b">>

\* Number of non-empty plans among the planning calls settled so far.
NonEmptyPlans == Cardinality({i \in 1..Len(planLog) : Len(planLog[i].plannedFiles) > 0})

\* C8: refactorBatch and resetToLastAcceptedCommit run only for a non-empty
\* most recent plan; when the first plan is empty, no batch and no rollback
\* runs and planAndRefactor resolves with empty accepted and discarded maps
\* and exactly one planning record.
C8_BatchOnlyForNonEmptyPlan ==
    /\ calls.refactorBatch <= NonEmptyPlans
    /\ calls.reset <= NonEmptyPlans
    /\ pc \in {"refactorBatch", "reset", "resetting"} =>
          /\ Len(plannedFiles) > 0
          /\ plannedFiles = planLog[Len(planLog)].plannedFiles
    /\ (Len(planLog) >= 1 /\ planLog[1].plannedFiles = <<>>) =>
          /\ pc \in {"dispatch0", "push0", "while", "resolved"}
          /\ calls.refactorBatch = 0
          /\ calls.reset = 0
          /\ pc = "resolved" =>
                returned = [settled |-> TRUE,
                            accepted |-> EmptyRecord,
                            discarded |-> EmptyRecord,
                            planFilesResults |-> <<planLog[1]>>]

C8_Witness ==
    /\ pc = "resolved"
    /\ planLog[1].plannedFiles = <<>>
    /\ Len(returned.planFilesResults) = 1

\* s is a prefix of t.
IsPrefix(s, t) == Len(s) <= Len(t) /\ SubSeq(t, 1, Len(s)) = s

\* C12: the accumulator is append-only. Every step leaves each path's
\* accepted and discarded history with its previous value as a prefix and
\* drops no path; it changes only in the merge, where each history becomes
\* its previous value followed by the batch's results of the same kind, so
\* nothing is removed, reordered or moved between accepted and discarded.
C12_AccumulatorAppendOnly ==
    [][ /\ \A kind \in Kinds :
              /\ DOMAIN files[kind] \subseteq DOMAIN files'[kind]
              /\ \A path \in Paths :
                    IsPrefix(Entries(files[kind], path), Entries(files'[kind], path))
        /\ files' # files =>
              /\ pc = "merge"
              /\ \A kind \in Kinds : \A path \in Paths :
                    Entries(files'[kind], path) =
                        Entries(files[kind], path) \o Entries(result[kind], path)
      ]_vars

\* The same path holds entries in both histories after two merges.
C12_Witness ==
    /\ calls.merge = 2
    /\ "a" \in DOMAIN files.accepted
    /\ "a" \in DOMAIN files.discarded
    /\ "b" \in DOMAIN files.accepted
    /\ Len(files.accepted["b"]) = 2

\* C15: within a batch the planned files are attempted one at a time in
\* the plan's order (the i-th planned file gets the i-th commit of the
\* batch); a file that fails does not end the batch, every later planned file
\* is attempted too; a failure is recorded under discarded and a success
\* under accepted.
C15_BatchFollowsPlanOrder ==
    pc \in {"refactorBatch", "reset", "resetting", "merge"} =>
        LET done == batchPos - 1 IN
        /\ pc # "refactorBatch" => done = Len(plannedFiles)
        /\ DOMAIN result.accepted \cup DOMAIN result.discarded =
               {plannedFiles[i] : i \in 1..done}
        /\ \A i \in 1..done :
              LET f  == plannedFiles[i]
                  es == Entries(result.accepted, f) \o Entries(result.discarded, f)
              IN  /\ Len(es) = 1
                  /\ es[1].filePath = f
                  /\ es[1].lastCommit = nextCommit - done + (i - 1)
                  /\ es[1].status = "success" <=> f \in DOMAIN result.accepted
                  /\ es[1].status = "failure" <=> f \in DOMAIN result.discarded

C15_Witness ==
    /\ pc = "reset"
    /\ plannedFiles = <<"b", "a">>
    /\ "b" \in DOMAIN result.discarded
    /\ "a" \in DOMAIN result.accepted
    /\ result.discarded["b"][1].lastCommit < result.accepted["a"][1].lastCommit
    /\ calls.refactorBatch = 2

(* ------------------- the memoized execution framework ---------------- *)

StepKeys == {"objective", "model"}

StepValues == {"v1", "v2"}

\* The inputs a caller may pass: every key once, in the order the caller
\* wrote them.
StepInputs ==
    { s \in [1..2 -> StepKeys \X StepValues] : s[1][1] # s[2][1] }

\* The fingerprint of an input: its canonical encoding, in which the order
\* the keys were written in no longer shows.
fingerprint(input) ==
    [k \in {input[i][1] : i \in 1..Len(input)} |->
        LET i == CHOOSE j \in 1..Len(input) : input[j][1] = k IN input[i][2]]

\* What the underlying transform may produce (a model call at temperature 1
\* answers differently from run to run).
StepOutputs == {"out1", "out2"}

\* Mutant of ExecuteHit: the persisted entry is ignored, the transform runs
\* again.
ExecuteHitReruns ==
    /\ Len(callLog) < MaxCalls
    /\ \E input \in StepInputs : \E out \in StepOutputs :
          /\ fingerprint(input) \in DOMAIN cache
          /\ transformLog' = Append(transformLog,
                [fingerprint |-> fingerprint(input), output |-> out])
          /\ callLog' = Append(callLog,
                [input |-> input, output |-> out, hit |-> TRUE])
    /\ UNCHANGED <<cache, loopVars, mergeVars, retryVars, stepVars, aliasVars>>

\* execute(input) with a persisted entry for the fingerprint: the entry is
\* returned, the transform and its side effects do not run.
ExecuteHit ==
    /\ Len(callLog) < MaxCalls
    /\ \E input \in StepInputs :
          /\ fingerprint(input) \in DOMAIN cache
          /\ callLog' = Append(callLog,
                [input |-> input, output |-> cache[fingerprint(input)],
                 hit |-> TRUE])
    /\ UNCHANGED <<cache, transformLog, loopVars, mergeVars, retryVars,
                   stepVars, aliasVars>>

\* execute(input) without a persisted entry: the transform runs, with its
\* side effects, and its output is persisted under the fingerprint.
ExecuteMiss ==
    /\ Len(callLog) < MaxCalls
    /\ \E input \in StepInputs : \E out \in StepOutputs :
          /\ fingerprint(input) \notin DOMAIN cache
          /\ cache' = cache @@ (fingerprint(input) :> out)
          /\ transformLog' = Append(transformLog,
                [fingerprint |-> fingerprint(input), output |-> out])
          /\ callLog' = Append(callLog,
                [input |-> input, output |-> out, hit |-> FALSE])
    /\ UNCHANGED <<loopVars, mergeVars, retryVars, stepVars, aliasVars>>

NextCache ==
    \/ ExecuteHit
    \/ ExecuteMiss

SpecCache == Init /\ [][NextCache]_vars

\* Number of runs of the transform for fingerprint fp.
Invocations(fp) ==
    Cardinality({i \in 1..Len(transformLog) : transformLog[i].fingerprint = fp})

\* C14: calls of a memoized step with inputs of the same fingerprint run the
\* transform exactly once and return equal outputs; a later call re-runs
\* none of the transform's side effects (the transform has run once per
\* fingerprint called, however many calls there were).
C14_SameFingerprintRunsTransformOnce ==
    /\ \A i, j \in 1..Len(callLog) :
          fingerprint(callLog[i].input) = fingerprint(callLog[j].input) =>
              /\ callLog[i].output = callLog[j].output
              /\ Invocations(fingerprint(callLog[i].input)) = 1
              /\ i < j => callLog[j].hit
    /\ Len(transformLog) =
          Cardinality({fingerprint(callLog[i].input) : i \in 1..Len(callLog)})

C14_Witness ==
    /\ Len(callLog) = 3
    /\ callLog[1].input # callLog[3].input
    /\ fingerprint(callLog[1].input) = fingerprint(callLog[3].input)
    /\ fingerprint(callLog[1].input) # fingerprint(callLog[2].input)
    /\ callLog[3].hit
    /\ Len(transformLog) = 2

\* The loop when every step that can be taken is eventually taken: each
\* awaited call settles and the continuation after it runs.
FairSpec == Init /\ [][Next]_vars /\ WF_vars(Next)

\* No batch or rollback call raises, and no planning call raises anything
\* but the cycle signal.
EveryCallReturns ==
    /\ thrown.by \in {"none", "planFiles"}
    /\ thrown.err # OtherError

\* The Plan Producer has returned an empty list or raised the cycle signal.
PlanningEnded ==
    \/ thrown.by = "planFiles" /\ thrown.err = CycleDetectedError
    \/ Len(planLog) > 0 /\ planLog[Len(planLog)].plannedFiles = <<>>

\* C19: if every planning, batch and rollback call returns and the Plan
\* Producer eventually returns an empty list or raises the cycle signal,
\* then planAndRefactor eventually resolves.
C19_ResolvesOncePlanningEnds ==
    ([]EveryCallReturns /\ <>PlanningEnded) => <>(pc = "resolved")

\* The elements of a sequence.
Range(s) == {s[i] : i \in DOMAIN s}

\* C18: every batch runs with exactly the list of the most recent planning
\* call, in its order; a re-plan replaces the working plan wholly; and the
\* record stored for a planning call keeps the list that call returned,
\* whatever later replacements do to the working plan.
C18_BatchUsesLatestPlanAndRecordsKeep ==
    /\ pc \in {"while", "refactorBatch", "reset", "resetting", "merge",
               "replan", "planFiles", "push"} =>
          plannedFiles = planLog[Len(planLog)].plannedFiles
    /\ pc \in {"dispatch", "splice"} =>
          plannedFiles = planLog[Len(planLog) - 1].plannedFiles
    /\ \A k \in 1..Len(batchLog) :
          (DOMAIN batchLog[k].accepted) \cup (DOMAIN batchLog[k].discarded)
              = Range(planLog[k].plannedFiles)
    /\ \A i \in 1..Len(planFilesResults) :
          planFilesResults[i].plannedFiles = planLog[i].plannedFiles

C18_Witness ==
    /\ pc = "refactorBatch"
    /\ calls.refactorBatch = 2
    /\ batchPos = 2
    /\ planLog[1].plannedFiles = <<"a", "b">>
    /\ planLog[2].plannedFiles = <<"b">>
    /\ plannedFiles = <<"b">>
    /\ Len(planFilesResults) = 2
    /\ planFilesResults[1].plannedFiles = <<"a", "b">>

(* ----------------------- model escalation policy ----------------------- *)

\* The models named by refactorConfigSchema.
Models == {"gpt-3.5-turbo", "gpt-4"}

\* useMoreExpensiveModelsOnRetry as configured by default.
DefaultEscalation == ("gpt-3.5-turbo" :> "gpt-4")

\* z.record(modelsSchema, modelsSchema): every map from some models to models.
EscalationMaps ==
    UNION { [from -> Models] : from \in SUBSET Models }

\* A step starts: its first attempt runs under the configured model.
StartStep ==
    /\ attempt.status = "idle"
    /\ \E mapping \in EscalationMaps, model \in Models, budget \in 1..MaxAttempts :
          attempt' = [status |-> "running", mapping |-> mapping,
                      budget |-> budget, model |-> model, n |-> 1,
                      history |-> <<model>>]
    /\ UNCHANGED <<loopVars, mergeVars, cacheVars, stepVars, aliasVars>>

\* The attempt produces a processable result.
AttemptSucceeds ==
    /\ attempt.status = "running"
    /\ attempt' = [attempt EXCEPT !.status = "success"]
    /\ UNCHANGED <<loopVars, mergeVars, cacheVars, stepVars, aliasVars>>

\* Mutant of AttemptFailsAndEscalates: the retry keeps the model that failed.
AttemptFailsAndRetriesSameModel ==
    /\ attempt.status = "running"
    /\ attempt.model \in DOMAIN attempt.mapping
    /\ attempt.n < attempt.budget
    /\ attempt' = [attempt EXCEPT !.n = @ + 1,
                                  !.history = Append(@, attempt.model)]
    /\ UNCHANGED <<loopVars, mergeVars, cacheVars, stepVars, aliasVars>>

\* A retryable failure under a model with a mapped fallback, within the
\* attempt budget: the next attempt uses the mapped model.
AttemptFailsAndEscalates ==
    /\ attempt.status = "running"
    /\ attempt.model \in DOMAIN attempt.mapping
    /\ attempt.n < attempt.budget
    /\ attempt' = [attempt EXCEPT !.model = attempt.mapping[attempt.model],
                                  !.n = @ + 1,
                                  !.history = Append(@, attempt.mapping[attempt.model])]
    /\ UNCHANGED <<loopVars, mergeVars, cacheVars, stepVars, aliasVars>>

\* A retryable failure under a model without a mapped fallback, or with the
\* attempt budget used up: the failure is final.
AttemptFailsFinally ==
    /\ attempt.status = "running"
    /\ \/ attempt.model \notin DOMAIN attempt.mapping
       \/ attempt.n >= attempt.budget
    /\ attempt' = [attempt EXCEPT !.status = "failure"]
    /\ UNCHANGED <<loopVars, mergeVars, cacheVars, stepVars, aliasVars>>

NextRetry ==
    \/ StartStep
    \/ AttemptSucceeds
    \/ AttemptFailsAndEscalates
    \/ AttemptFailsFinally

SpecRetry == Init /\ [][NextRetry]_vars

\* C16: the attempt that follows a retryable failure under a model uses the
\* model mapped to it, one hop per failure; no attempt follows a failure
\* under a model without a mapped fallback; there are never more attempts
\* than the attempt budget, and the step ends in a final failure when the
\* failing model has no fallback or the budget is used up.
C16_EscalationOneHopPerFailure ==
    /\ attempt.n = Len(attempt.history)
    /\ attempt.n <= attempt.budget
    /\ \A i \in 1..(Len(attempt.history) - 1) :
          /\ attempt.history[i] \in DOMAIN attempt.mapping
          /\ attempt.history[i + 1] = attempt.mapping[attempt.history[i]]
    /\ attempt.status # "idle" => attempt.model = attempt.history[attempt.n]
    /\ attempt.status = "failure" =>
          \/ attempt.model \notin DOMAIN attempt.mapping
          \/ attempt.n = attempt.budget

C16_Witness ==
    /\ attempt.status = "failure"
    /\ attempt.mapping = DefaultEscalation
    /\ attempt.budget = 3
    /\ attempt.history = <<"gpt-3.5-turbo", "gpt-4">>

(* ------------------------------ lastCommit ------------------------------ *)

\* The value of a missing property.
Undefined == "undefined"

Commits == {"c1", "c2"}

Tasks == {"t1", "t2"}

\* refactorStepResultSchema, without the file contents.
StepResults == [task : Tasks, commit : Commits]

\* Mutant of lastCommit: the commit of the first step.
lastCommitOfFirst(s) ==
    IF 1 \in DOMAIN s THEN s[1].commit ELSE Undefined

\* steps[steps.length - 1]?.commit: the element at the last index when there
\* is one, and undefined through the optional chain otherwise.
lastCommit(s) ==
    LET last == Len(s)
    IN  IF last \in DOMAIN s THEN s[last].commit ELSE Undefined

\* A step of the file is committed and recorded.
AppendStep ==
    /\ fileResult.status = "none"
    /\ Len(steps) < MaxSteps
    /\ \E step \in StepResults : steps' = Append(steps, step)
    /\ UNCHANGED <<fileResult, loopVars, mergeVars, cacheVars, retryVars, aliasVars>>

\* The file's result is built from the steps recorded so far.
FinishFile ==
    /\ fileResult.status = "none"
    /\ \E status \in Statuses :
          fileResult' = [status |-> status, steps |-> steps,
                         lastCommit |-> lastCommit(steps)]
    /\ UNCHANGED <<steps, loopVars, mergeVars, cacheVars, retryVars, aliasVars>>

NextSteps ==
    \/ AppendStep
    \/ FinishFile

SpecSteps == Init /\ [][NextSteps]_vars

\* C17: a result's lastCommit is the commit of the final element of its
\* steps, and is undefined when it has no step.
C17_LastCommitIsCommitOfFinalStep ==
    fileResult.status # "none" =>
        /\ fileResult.steps = <<>> => fileResult.lastCommit = Undefined
        /\ fileResult.steps # <<>> =>
              fileResult.lastCommit = fileResult.steps[Len(fileResult.steps)].commit

C17_Witness ==
    /\ fileResult.status = "success"
    /\ Len(fileResult.steps) = 3
    /\ fileResult.steps[1].commit = "c1"
    /\ fileResult.steps[3].commit = "c2"
    /\ fileResult.lastCommit = "c2"

(* ------------------ the merge on records of references ------------------ *)

\* The results pushed in this specification.
AliasResults == { r \in RefactorResults : r.lastCommit = 1 }

\* The contents of a record: each path with the array its reference names.
Deref(rec, h) == [p \in DOMAIN rec |-> h[rec[p]]]

\* The number of results a record holds.
SizeOf(rec, h) == SumLen(Deref(rec, h), DOMAIN rec)

\* pushRefactorFileResults on references: array.push(result) changes the
\* array in place; a new path gets a new array [result].
pushRefactorFileResultsRef(r, into, h) ==
    IF r.filePath \in DOMAIN into
    THEN [rec |-> into,
          heap |-> [h EXCEPT ![into[r.filePath]] = Append(@, r)]]
    ELSE [rec |-> into @@ (r.filePath :> Len(h) + 1),
          heap |-> Append(h, <<r>>)]

\* The body of the for-loop on references: existing.concat(tasks) is a new
\* array; without an existing array `into` takes the array of `from` itself.
MergeEntryRef(file, from, into, h) ==
    IF file \in DOMAIN into
    THEN [rec |-> [into EXCEPT ![file] = Len(h) + 1],
          heap |-> Append(h, h[into[file]] \o h[from[file]])]
    ELSE [rec |-> into @@ (file :> from[file]),
          heap |-> h]

RECURSIVE MergeEntriesRef(_, _, _, _)
MergeEntriesRef(keys, from, into, h) ==
    IF keys = <<>> THEN [rec |-> into, heap |-> h]
    ELSE LET next == MergeEntryRef(Head(keys), from, into, h)
         IN  MergeEntriesRef(Tail(keys), from, next.rec, next.heap)

\* mutateToMergeRefactorRecords on references: `into` and the heap afterwards.
mutateToMergeRefactorRecordsRef(from, into, h) ==
    MergeEntriesRef(ObjectKeys(DOMAIN from), from, into, h)

\* A result is pushed into `from` before the merge.
AliasPushFrom ==
    /\ aliasPhase = "build"
    /\ SizeOf(fromRef, heap) + SizeOf(intoRef, heap) < MaxEntries
    /\ \E r \in AliasResults :
          LET out == pushRefactorFileResultsRef(r, fromRef, heap)
          IN  /\ fromRef' = out.rec
              /\ heap' = out.heap
    /\ UNCHANGED <<intoRef, fromBefore, aliasPhase>>
    /\ UNCHANGED <<loopVars, mergeVars, cacheVars, retryVars, stepVars>>

\* A result is pushed into `into` before the merge.
AliasPushInto ==
    /\ aliasPhase = "build"
    /\ SizeOf(fromRef, heap) + SizeOf(intoRef, heap) < MaxEntries
    /\ \E r \in AliasResults :
          LET out == pushRefactorFileResultsRef(r, intoRef, heap)
          IN  /\ intoRef' = out.rec
              /\ heap' = out.heap
    /\ UNCHANGED <<fromRef, fromBefore, aliasPhase>>
    /\ UNCHANGED <<loopVars, mergeVars, cacheVars, retryVars, stepVars>>

\* mutateToMergeRefactorRecords({from, into}) runs.
AliasMerge ==
    /\ aliasPhase = "build"
    /\ LET out == mutateToMergeRefactorRecordsRef(fromRef, intoRef, heap)
       IN  /\ intoRef' = out.rec
           /\ heap' = out.heap
           /\ fromBefore' = Deref(fromRef, heap)
    /\ aliasPhase' = "merged"
    /\ UNCHANGED fromRef
    /\ UNCHANGED <<loopVars, mergeVars, cacheVars, retryVars, stepVars>>

\* A result is pushed into `into` after the merge.
AliasPushAfter ==
    /\ aliasPhase = "merged"
    /\ SizeOf(intoRef, heap) <= MaxEntries
    /\ \E r \in AliasResults :
          LET out == pushRefactorFileResultsRef(r, intoRef, heap)
          IN  /\ intoRef' = out.rec
              /\ heap' = out.heap
    /\ UNCHANGED <<fromRef, fromBefore, aliasPhase>>
    /\ UNCHANGED <<loopVars, mergeVars, cacheVars, retryVars, stepVars>>

NextAlias ==
    \/ AliasPushFrom
    \/ AliasPushInto
    \/ AliasMerge
    \/ AliasPushAfter

SpecAlias == Init /\ [][NextAlias]_vars

\* C20: the merge modifies no key or array of `from`, and no later push
\* into `into` changes an array of `from`.
C20_FromUnchangedByMergeAndLaterPushes ==
    aliasPhase = "merged" => Deref(fromRef, heap) = fromBefore

====
